---- MODULE Spec2Model ----
(***************************************************************************)
(* Model of src/scraper.py: the chunked, two-tier concurrent crawl.        *)
(*                                                                         *)
(*   main           one thread: header, then chunk after chunk; per chunk  *)
(*                  a session and a pool of page tasks; writes the rows    *)
(*   scrape_page    one thread per page of the chunk: index fetch, a pool  *)
(*                  of detail tasks, the as_completed loop, total_bar      *)
(*   parse_detail   one pool task per listing link: fetch, then parse      *)
(*   get_with_retries  the retry loop used by both fetches                 *)
(*                                                                         *)
(* Specifications, over the same definitions:                              *)
(*   Spec       the whole crawl (FairSpec adds the scheduler's fairness)   *)
(*   FetchSpec  one call of get_with_retries with its whole history        *)
(*   DetailSpec one call of parse_detail: the fetch, then the parse        *)
(***************************************************************************)
EXTENDS Integers, Sequences, FiniteSets, TLC

\* ---------------------------------------------------------------- config
\* PAGES, CHUNK_SIZE and MAX_DETAIL_WORKERS are the configuration names of
\* scraper.py (60, 5, 10 there); the model runs them scaled down.
PAGES == 3
CHUNK_SIZE == 2
MAX_DETAIL_WORKERS == 1
\* most listing links an index page of the modelled site carries
MaxLinks == 2
\* defaults of get_with_retries(session, url, retries=3, backoff=2)
RETRIES == 3
BACKOFF == 2

BASE_URL == "https://www.merrjep.al"
\* Threads are named by number: the page thread of page p is p, main is 0.
MainThread == 0
\* hrefs the modelled site puts on its index pages: two relative ones
Hrefs == {"/a", "/b"}

Pages == 1..PAGES

\* ------------------------------------------------------- the fake origin
\* What one request attempt can come back with.
Outcomes == {"s200", "s404", "s429", "s500", "reset", "timeout"}
\* resp.raise_for_status() raises requests.HTTPError for 4xx and 5xx.
HTTPErrors == {"s404", "s429", "s500"}
\* session.get raises ConnectionError / Timeout, which are not HTTPError.
NetErrors == {"reset", "timeout"}
\* Detail page bodies, by what parse_detail's selectors find in them.
\*   tags:  "ok"      .tag-item blocks, each with its span and its bdi
\*          "none"    no .tag-item block
\*          "nospan"  a .tag-item block without a span (no label element)
\*          "nobdi"   a .tag-item block without a bdi (no value element)
\*   price: "ok"      .new-price .format-money-int with a value attribute
\*          "none"    no price element
\*          "noattr"  the price element without its value attribute
Bodies == [tags : {"ok", "none", "nospan", "nobdi"},
           price : {"ok", "none", "noattr"}]

\* lines 57-72: tag.find("span") / tag.find("bdi") give None for a missing
\* element and .get_text on None raises AttributeError; pe["value"] raises
\* KeyError for a missing attribute; a missing block is skipped.
ParseRaises(body) ==
    body.tags \in {"nospan", "nobdi"} \/ body.price = "noattr"

\* the data dictionary of line 74 for a body that parses
ParsedData(body) ==
    [fields |-> IF body.tags = "ok" THEN "set" ELSE "absent",
     price_value |-> IF body.price = "ok" THEN "set" ELSE "empty"]

\* -------------------------------------------------------------- variables
VARIABLES
    mainPc,     \* where main() is
    i,          \* main's loop variable: pages before the current chunk
    file,       \* rows of OUTPUT_FILE, in order
    writing,    \* threads inside writer.writerow right now
    n,          \* total_bar.n
    sessions,   \* session id -> "open" | "closed"
    page,       \* page number -> state of its scrape_page task
    wp, wi,     \* main's row loop: page being written, next result index
    pageErr,    \* pages reported by line 125
    call,       \* FetchSpec: the one get_with_retries call
    hist,       \* FetchSpec: outcomes of its attempts so far
    waits,      \* FetchSpec: the time.sleep arguments so far
    ret         \* DetailSpec: what the one parse_detail call came to

vars == <<mainPc, i, file, writing, n, sessions, page, wp, wi, pageErr,
          call, hist, waits, ret>>
crawlVars == <<mainPc, i, file, writing, n, sessions, page, wp, wi, pageErr>>
fetchVars == <<call, hist, waits, ret>>

\* ------------------------------------------------------- get_with_retries
\* A call in progress: the request of `attempt` is in flight.
NewCall(retries, backoff) ==
    [st |-> "req", attempt |-> 1, retries |-> retries, backoff |-> backoff]

\* variant: only 5xx and 429 are caught for another attempt
RetriedTransientOnly(c, o) == o \in {"s429", "s500"} /\ c.attempt < c.retries

\* Does the except clause of line 42 catch the outcome and go round again?
Retried(c, o) == o \in HTTPErrors /\ c.attempt < c.retries

\* variant: backoff is doubled before the sleep, not after it
SleepForDoubled(c, o) == IF Retried(c, o) THEN c.backoff * 2 ELSE 0

\* The argument of time.sleep after this outcome (0: no sleep).
SleepFor(c, o) == IF Retried(c, o) THEN c.backoff ELSE 0

\* One attempt's outcome applied to the call: return, sleep and go on with
\* the next attempt, or let the exception out.
GetStep(c, o) ==
    IF o = "s200" THEN [c EXCEPT !.st = "ret"]
    ELSE IF Retried(c, o)
         THEN [c EXCEPT !.attempt = c.attempt + 1, !.backoff = c.backoff * 2]
         ELSE [c EXCEPT !.st = "raise"]

\* ----------------------------------------------------------------- helpers
Min(a, b) == IF a < b THEN a ELSE b

\* range(i+1, min(PAGES, i+CHUNK_SIZE)+1): the pages of the chunk at i
Chunk(j) == (j + 1)..Min(PAGES, j + CHUNK_SIZE)

\* url = href if href.startswith("http") else BASE_URL + href; the modelled
\* hrefs are all relative.
Url(href) == <<BASE_URL, href>>

NoCall == [st |-> "none", attempt |-> 0, retries |-> 0, backoff |-> 0]

\* parse_detail has neither returned nor raised
NoRet == [kind |-> "none"]

\* sequences over S of length at most m
SeqsUpTo(S, m) == UNION {[1..l -> S] : l \in 0..m}

\* The index pages the modelled site can serve, as their a.Link_vis hrefs in
\* document order: up to MaxLinks links, the first of them "/a", so that a
\* link can come twice on a page and on two pages.
IndexBodies == {hs \in SeqsUpTo(Hrefs, MaxLinks) : hs # <<>> => hs[1] = "/a"}

\* A page task before main submits it.
NewPage ==
    [pc |-> "new", c |-> NoCall, sess |-> 0, hrefs |-> <<>>, items |-> <<>>,
     results |-> <<>>, cur |-> 0, tmp |-> 0, derr |-> 0, taken |-> FALSE]

\* A detail task as executor.submit queues it.
QueuedItem == [st |-> "queued", c |-> NoCall, seen |-> FALSE]
RunningItem == [st |-> "run", c |-> NewCall(RETRIES, BACKOFF), seen |-> FALSE]

Running(items) == {k \in DOMAIN items : items[k].st = "run"}
Queued(items) == {k \in DOMAIN items : items[k].st = "queued"}

\* variant: a pool without max_workers, every queued task starts at once
DispatchAll(items) ==
    [k \in DOMAIN items |->
        IF items[k].st = "queued" THEN RunningItem ELSE items[k]]

\* ThreadPoolExecutor(max_workers=MAX_DETAIL_WORKERS): a free worker takes
\* the oldest queued task; repeated until no worker or no task is left.
RECURSIVE Dispatch(_)
Dispatch(items) ==
    IF Queued(items) # {} /\ Cardinality(Running(items)) < MAX_DETAIL_WORKERS
    THEN LET k == CHOOSE q \in Queued(items) : \A r \in Queued(items) : q <= r
         IN Dispatch([items EXCEPT ![k] = RunningItem])
    ELSE items

\* ------------------------------------------------------------------- state
Init ==
    /\ mainPc = "start"
    /\ i = 0
    /\ file = <<>>
    /\ writing = {}
    /\ n = 0
    /\ sessions = <<>>
    /\ page = [p \in Pages |-> NewPage]
    /\ wp = 0
    /\ wi = 0
    /\ pageErr = {}
    /\ call = NoCall
    /\ hist = <<>>
    /\ waits = <<>>
    /\ ret = NoRet

\* ------------------------------------------------------------------ main()
\* lines 101-106: open the file, write the header, create total_bar
WriteHeader ==
    /\ mainPc = "start"
    /\ file' = Append(file, [kind |-> "header"])
    /\ n' = 0
    /\ mainPc' = "chunk"
    /\ UNCHANGED <<i, writing, sessions, page, wp, wi, pageErr, fetchVars>>

\* variant: one session for the whole run, closed at the end of each chunk
BeginChunkSharedSession ==
    /\ mainPc = "chunk"
    /\ i < PAGES
    /\ sessions' = IF sessions = <<>> THEN <<"open">> ELSE sessions
    /\ page' = [p \in Pages |->
                  IF p \in Chunk(i)
                  THEN [NewPage EXCEPT !.pc = "index",
                                       !.c = NewCall(RETRIES, BACKOFF),
                                       !.sess = 1]
                  ELSE page[p]]
    /\ mainPc' = "collect"
    /\ UNCHANGED <<i, file, writing, n, wp, wi, pageErr, fetchVars>>

\* variant: the header is written at the start of every chunk
BeginChunkWritesHeader ==
    /\ mainPc = "chunk"
    /\ i < PAGES
    /\ file' = Append(file, [kind |-> "header"])
    /\ sessions' = Append(sessions, "open")
    /\ page' = [p \in Pages |->
                  IF p \in Chunk(i)
                  THEN [NewPage EXCEPT !.pc = "index",
                                       !.c = NewCall(RETRIES, BACKOFF),
                                       !.sess = Len(sessions) + 1]
                  ELSE page[p]]
    /\ mainPc' = "collect"
    /\ UNCHANGED <<i, writing, n, wp, wi, pageErr, fetchVars>>

\* lines 108-114: next chunk, its session, its page tasks submitted (each
\* page thread starts with the request for its index page)
BeginChunk ==
    /\ mainPc = "chunk"
    /\ i < PAGES
    /\ sessions' = Append(sessions, "open")
    /\ page' = [p \in Pages |->
                  IF p \in Chunk(i)
                  THEN [NewPage EXCEPT !.pc = "index",
                                       !.c = NewCall(RETRIES, BACKOFF),
                                       !.sess = Len(sessions) + 1]
                  ELSE page[p]]
    /\ mainPc' = "collect"
    /\ UNCHANGED <<i, file, writing, n, wp, wi, pageErr, fetchVars>>

\* lines 128-129: the loop is over
Finish ==
    /\ mainPc = "chunk"
    /\ i >= PAGES
    /\ mainPc' = "done"
    /\ UNCHANGED <<i, file, writing, n, sessions, page, wp, wi, pageErr,
                   fetchVars>>

\* ------------------------------------------------------------ scrape_page
\* lines 78-85: one attempt of the index fetch comes back; on success the
\* hrefs are read and one detail task per href is submitted
IndexResponse(p, o, hs) ==
    /\ page[p].pc = "index"
    /\ LET c2 == GetStep(page[p].c, o) IN
       page' = [page EXCEPT ![p] =
           IF c2.st = "ret"
           THEN [@ EXCEPT !.pc = "pool", !.c = NoCall, !.hrefs = hs,
                          !.items = Dispatch([k \in DOMAIN hs |-> QueuedItem])]
           ELSE IF c2.st = "raise"
           THEN [@ EXCEPT !.pc = "raised", !.c = NoCall]
           ELSE [@ EXCEPT !.c = c2]]
    /\ UNCHANGED <<mainPc, i, file, writing, n, sessions, wp, wi, pageErr,
                   fetchVars>>

\* variant: every failed attempt is reported as a detail error
DetailResponseReportsAttempts(p, k, o, body) ==
    /\ page[p].pc \in {"pool", "upd"}
    /\ k \in DOMAIN page[p].items
    /\ page[p].items[k].st = "run"
    /\ LET c2 == GetStep(page[p].items[k].c, o)
           st2 == IF c2.st = "ret"
                  THEN (IF ParseRaises(body) THEN "exc" ELSE "ok")
                  ELSE IF c2.st = "raise" THEN "exc" ELSE "run"
       IN page' = [page EXCEPT
                     ![p].items = Dispatch([@ EXCEPT ![k].st = st2,
                                              ![k].c = IF st2 = "run" THEN c2
                                                       ELSE NoCall]),
                     ![p].derr = IF o = "s200" THEN @ ELSE @ + 1]
    /\ UNCHANGED <<mainPc, i, file, writing, n, sessions, wp, wi, pageErr,
                   fetchVars>>

\* variant: a detail task whose fetch failed is put back into the queue
DetailResponseRequeues(p, k, o, body) ==
    /\ page[p].pc \in {"pool", "upd"}
    /\ k \in DOMAIN page[p].items
    /\ page[p].items[k].st = "run"
    /\ LET c2 == GetStep(page[p].items[k].c, o)
           st2 == IF c2.st = "ret"
                  THEN (IF ParseRaises(body) THEN "exc" ELSE "ok")
                  ELSE IF c2.st = "raise" THEN "queued" ELSE "run"
       IN page' = [page EXCEPT ![p].items =
                     Dispatch([@ EXCEPT ![k].st = st2,
                                        ![k].c = IF st2 = "run" THEN c2
                                                 ELSE NoCall])]
    /\ UNCHANGED <<mainPc, i, file, writing, n, sessions, wp, wi, pageErr,
                   fetchVars>>

\* parse_detail, lines 52-74, in a pool thread: one attempt of the detail
\* fetch comes back; a fetched body is parsed; the worker then takes the
\* next queued task
DetailResponse(p, k, o, body) ==
    /\ page[p].pc \in {"pool", "upd"}
    /\ k \in DOMAIN page[p].items
    /\ page[p].items[k].st = "run"
    /\ LET c2 == GetStep(page[p].items[k].c, o)
           st2 == IF c2.st = "ret"
                  THEN (IF ParseRaises(body) THEN "exc" ELSE "ok")
                  ELSE IF c2.st = "raise" THEN "exc" ELSE "run"
       IN page' = [page EXCEPT ![p].items =
                     Dispatch([@ EXCEPT ![k].st = st2,
                                        ![k].c = IF st2 = "run" THEN c2
                                                 ELSE NoCall])]
    /\ UNCHANGED <<mainPc, i, file, writing, n, sessions, wp, wi, pageErr,
                   fetchVars>>

\* variant: the page thread writes the row itself as soon as it has it
TakeResultAndWrite(p, k) ==
    /\ page[p].pc = "pool"
    /\ k \in DOMAIN page[p].items
    /\ page[p].items[k].st = "ok"
    /\ ~page[p].items[k].seen
    /\ page' = [page EXCEPT ![p].pc = "upd", ![p].cur = k, ![p].tmp = n]
    /\ writing' = writing \cup {p}
    /\ UNCHANGED <<mainPc, i, file, n, sessions, wp, wi, pageErr, fetchVars>>

\* lines 92-93: as_completed hands over a finished future, fut.result()
\* returns, total_bar.update(1) reads self.n
TakeResult(p, k) ==
    /\ page[p].pc = "pool"
    /\ k \in DOMAIN page[p].items
    /\ page[p].items[k].st = "ok"
    /\ ~page[p].items[k].seen
    /\ page' = [page EXCEPT ![p].pc = "upd", ![p].cur = k, ![p].tmp = n]
    /\ UNCHANGED <<mainPc, i, file, writing, n, sessions, wp, wi, pageErr,
                   fetchVars>>

\* variant: the page thread puts the row into the file when it has the result
StoreResultWritesRow(p) ==
    /\ page[p].pc = "upd"
    /\ n' = page[p].tmp + 1
    /\ file' = Append(file, [kind |-> "row", pg |-> p, k |-> page[p].cur,
                             url |-> Url(page[p].hrefs[page[p].cur])])
    /\ page' = [page EXCEPT
                  ![p].pc = "pool",
                  ![p].items[page[p].cur].seen = TRUE,
                  ![p].cur = 0, ![p].tmp = 0]
    /\ UNCHANGED <<mainPc, i, writing, sessions, wp, wi, pageErr, fetchVars>>

\* variant: the result is appended twice
StoreResultTwice(p) ==
    /\ page[p].pc = "upd"
    /\ n' = page[p].tmp + 1
    /\ LET r == [k |-> page[p].cur, url |-> Url(page[p].hrefs[page[p].cur])]
       IN page' = [page EXCEPT
                     ![p].pc = "pool",
                     ![p].results = Append(Append(@, r), r),
                     ![p].items[page[p].cur].seen = TRUE,
                     ![p].cur = 0, ![p].tmp = 0]
    /\ UNCHANGED <<mainPc, i, file, writing, sessions, wp, wi, pageErr,
                   fetchVars>>

\* lines 93-94: total_bar.update(1) stores self.n, results.append
StoreResult(p) ==
    /\ page[p].pc = "upd"
    /\ n' = page[p].tmp + 1
    /\ page' = [page EXCEPT
                  ![p].pc = "pool",
                  ![p].results = Append(@, [k |-> page[p].cur,
                                            url |-> Url(page[p].hrefs[page[p].cur])]),
                  ![p].items[page[p].cur].seen = TRUE,
                  ![p].cur = 0, ![p].tmp = 0]
    /\ UNCHANGED <<mainPc, i, file, writing, sessions, wp, wi, pageErr,
                   fetchVars>>

\* variant: a failed detail task is dropped without a report
TakeErrorSilent(p, k) ==
    /\ page[p].pc = "pool"
    /\ k \in DOMAIN page[p].items
    /\ page[p].items[k].st = "exc"
    /\ ~page[p].items[k].seen
    /\ page' = [page EXCEPT ![p].items[k].seen = TRUE]
    /\ UNCHANGED <<mainPc, i, file, writing, n, sessions, wp, wi, pageErr,
                   fetchVars>>

\* variant: no try/except around fut.result(), the error leaves scrape_page
TakeErrorAborts(p, k) ==
    /\ page[p].pc = "pool"
    /\ k \in DOMAIN page[p].items
    /\ page[p].items[k].st = "exc"
    /\ ~page[p].items[k].seen
    /\ \A j \in DOMAIN page[p].items : page[p].items[j].st \in {"ok", "exc"}
    /\ page' = [page EXCEPT ![p].items[k].seen = TRUE, ![p].pc = "raised"]
    /\ UNCHANGED <<mainPc, i, file, writing, n, sessions, wp, wi, pageErr,
                   fetchVars>>

\* lines 95-96: fut.result() raises, the detail error is reported
TakeError(p, k) ==
    /\ page[p].pc = "pool"
    /\ k \in DOMAIN page[p].items
    /\ page[p].items[k].st = "exc"
    /\ ~page[p].items[k].seen
    /\ page' = [page EXCEPT ![p].items[k].seen = TRUE, ![p].derr = @ + 1]
    /\ UNCHANGED <<mainPc, i, file, writing, n, sessions, wp, wi, pageErr,
                   fetchVars>>

\* variant: the page task returns only when no detail task failed
PageReturnIfAllOk(p) ==
    /\ page[p].pc = "pool"
    /\ \A k \in DOMAIN page[p].items :
          page[p].items[k].seen /\ page[p].items[k].st = "ok"
    /\ page' = [page EXCEPT ![p].pc = "returned"]
    /\ UNCHANGED <<mainPc, i, file, writing, n, sessions, wp, wi, pageErr,
                   fetchVars>>

\* line 97: every future was handed over, the pool is shut down, return
PageReturn(p) ==
    /\ page[p].pc = "pool"
    /\ \A k \in DOMAIN page[p].items : page[p].items[k].seen
    /\ page' = [page EXCEPT ![p].pc = "returned"]
    /\ UNCHANGED <<mainPc, i, file, writing, n, sessions, wp, wi, pageErr,
                   fetchVars>>

\* ------------------------------------------------- main(), lines 115-126
\* variant: no try/except around fut.result(), a failed page ends main
CollectPageNoCatch(p) ==
    /\ mainPc = "collect"
    /\ p \in Chunk(i)
    /\ ~page[p].taken
    /\ page[p].pc \in {"returned", "raised"}
    /\ page' = [page EXCEPT ![p].taken = TRUE]
    /\ IF page[p].pc = "returned"
       THEN /\ mainPc' = "rows"
            /\ wp' = p
            /\ wi' = 1
       ELSE /\ mainPc' = "done"
            /\ UNCHANGED <<wp, wi>>
    /\ UNCHANGED <<i, file, writing, n, sessions, pageErr, fetchVars>>

\* as_completed(futures) hands over a finished page future
CollectPage(p) ==
    /\ mainPc = "collect"
    /\ p \in Chunk(i)
    /\ ~page[p].taken
    /\ page[p].pc \in {"returned", "raised"}
    /\ page' = [page EXCEPT ![p].taken = TRUE]
    /\ IF page[p].pc = "returned"
       THEN /\ mainPc' = "rows"
            /\ wp' = p
            /\ wi' = 1
            /\ UNCHANGED pageErr
       ELSE /\ pageErr' = pageErr \cup {p}
            /\ UNCHANGED <<mainPc, wp, wi>>
    /\ UNCHANGED <<i, file, writing, n, sessions, fetchVars>>

\* line 119: writer.writerow is entered for the next result of the page
WriteRowBegin ==
    /\ mainPc = "rows"
    /\ wi <= Len(page[wp].results)
    /\ MainThread \notin writing
    /\ writing' = writing \cup {MainThread}
    /\ UNCHANGED <<mainPc, i, file, n, sessions, page, wp, wi, pageErr,
                   fetchVars>>

\* lines 119-123: the row is in the file, writerow returns
WriteRowEnd ==
    /\ mainPc = "rows"
    /\ MainThread \in writing
    /\ file' = Append(file, [kind |-> "row", pg |-> wp,
                             k |-> page[wp].results[wi].k,
                             url |-> page[wp].results[wi].url])
    /\ writing' = writing \ {MainThread}
    /\ wi' = wi + 1
    /\ UNCHANGED <<mainPc, i, n, sessions, page, wp, pageErr, fetchVars>>

\* line 118: the page's results are exhausted, back to as_completed
RowsDone ==
    /\ mainPc = "rows"
    /\ wi > Len(page[wp].results)
    /\ mainPc' = "collect"
    /\ wp' = 0
    /\ wi' = 0
    /\ UNCHANGED <<i, file, writing, n, sessions, page, pageErr, fetchVars>>

\* variant: the chunk is left as soon as one page future was handed over
EndChunkNoWait ==
    /\ mainPc = "collect"
    /\ \E p \in Chunk(i) : page[p].taken
    /\ sessions' = [sessions EXCEPT ![Len(sessions)] = "closed"]
    /\ i' = i + CHUNK_SIZE
    /\ mainPc' = "chunk"
    /\ UNCHANGED <<file, writing, n, page, wp, wi, pageErr, fetchVars>>

\* lines 113, 126: every page future was handed over, the page pool is shut
\* down, the session is closed, on to the next chunk
EndChunk ==
    /\ mainPc = "collect"
    /\ \A p \in Chunk(i) : page[p].taken
    /\ sessions' = [sessions EXCEPT ![Len(sessions)] = "closed"]
    /\ i' = i + CHUNK_SIZE
    /\ mainPc' = "chunk"
    /\ UNCHANGED <<file, writing, n, page, wp, wi, pageErr, fetchVars>>

Next ==
    \/ WriteHeader
    \/ BeginChunk
    \/ Finish
    \/ \E p \in Pages, o \in Outcomes, hs \in IndexBodies :
          IndexResponse(p, o, hs)
    \/ \E p \in Pages, k \in 1..MaxLinks, o \in Outcomes, b \in Bodies :
          DetailResponse(p, k, o, b)
    \/ \E p \in Pages, k \in 1..MaxLinks : TakeResult(p, k)
    \/ \E p \in Pages : StoreResult(p)
    \/ \E p \in Pages, k \in 1..MaxLinks : TakeError(p, k)
    \/ \E p \in Pages : PageReturn(p)
    \/ \E p \in Pages : CollectPage(p)
    \/ WriteRowBegin
    \/ WriteRowEnd
    \/ RowsDone
    \/ EndChunk

Spec == Init /\ [][Next]_vars

\* the scheduler runs every thread that can take a step, and every request
\* attempt ends within its timeout (session.get(url, timeout=10))
FairSpec == Spec /\ WF_vars(Next)

\* ------------------------------------- one call of get_with_retries alone
\* largest retries and backoff arguments the call is tried with
MaxRetriesArg == 3
MaxBackoffArg == 3

FetchInit ==
    /\ mainPc = "start"
    /\ i = 0
    /\ file = <<>>
    /\ writing = {}
    /\ n = 0
    /\ sessions = <<>>
    /\ page = [p \in Pages |-> NewPage]
    /\ wp = 0
    /\ wi = 0
    /\ pageErr = {}
    /\ call \in {NewCall(r, b) : r \in 1..MaxRetriesArg, b \in 1..MaxBackoffArg}
    /\ hist = <<>>
    /\ waits = <<>>
    /\ ret = NoRet

\* lines 37-48: one turn of the for loop; the attempt's outcome is o
Attempt(o) ==
    /\ call.st = "req"
    /\ call' = GetStep(call, o)
    /\ hist' = Append(hist, o)
    /\ waits' = IF SleepFor(call, o) > 0
                THEN Append(waits, SleepFor(call, o))
                ELSE waits
    /\ UNCHANGED <<crawlVars, ret>>

FetchNext == \E o \in Outcomes : Attempt(o)

FetchSpec == FetchInit /\ [][FetchNext]_vars

\* ----------------------------------------- one call of parse_detail alone
DetailInit ==
    /\ mainPc = "start"
    /\ i = 0
    /\ file = <<>>
    /\ writing = {}
    /\ n = 0
    /\ sessions = <<>>
    /\ page = [p \in Pages |-> NewPage]
    /\ wp = 0
    /\ wi = 0
    /\ pageErr = {}
    /\ call = NewCall(RETRIES, BACKOFF)
    /\ hist = <<>>
    /\ waits = <<>>
    /\ ret = NoRet

\* lines 52-74 for the href h: one attempt of the fetch comes back with o,
\* and body is what a 200 carries; the call returns (url, data) or raises
DetailAttempt(h, o, body) ==
    /\ call.st = "req"
    /\ call' = GetStep(call, o)
    /\ hist' = Append(hist, o)
    /\ waits' = IF SleepFor(call, o) > 0
                THEN Append(waits, SleepFor(call, o))
                ELSE waits
    /\ ret' = IF call'.st = "ret"
              THEN (IF ParseRaises(body)
                    THEN [kind |-> "raised", by |-> "parse"]
                    ELSE [kind |-> "returned", url |-> Url(h),
                          data |-> ParsedData(body)])
              ELSE IF call'.st = "raise"
              THEN [kind |-> "raised", by |-> "fetch"]
              ELSE ret
    /\ UNCHANGED crawlVars

DetailNext ==
    \E h \in Hrefs, o \in Outcomes, body \in Bodies : DetailAttempt(h, o, body)

DetailSpec == DetailInit /\ [][DetailNext]_vars

\* ================================================================ claims
Last(q) == q[Len(q)]

\* rows of the file that came from detail task k of page p
RowsOf(p, k) ==
    Cardinality({j \in DOMAIN file :
        file[j].kind = "row" /\ file[j].pg = p /\ file[j].k = k})

\* rows of the file that came from page p
RowsOfPage(p) ==
    Cardinality({j \in DOMAIN file : file[j].kind = "row" /\ file[j].pg = p})

RowCount == Cardinality({j \in DOMAIN file : file[j].kind = "row"})

Item(p, k) == page[p].items[k]
ItemsOf(p) == DOMAIN page[p].items

\* the page's future is done and main has dealt with it
Resolved(p) == page[p].pc \in {"returned", "raised"} /\ page[p].taken

\* requests in flight for page p: its index request, its running detail tasks
InFlight(p) ==
    (IF page[p].pc = "index" THEN 1 ELSE 0)
        + Cardinality(Running(page[p].items))

RECURSIVE SumInFlight(_)
SumInFlight(P) ==
    IF P = {} THEN 0
    ELSE LET p == CHOOSE q \in P : TRUE
         IN InFlight(p) + SumInFlight(P \ {p})

RECURSIVE SumResults(_)
SumResults(P) ==
    IF P = {} THEN 0
    ELSE LET p == CHOOSE q \in P : TRUE
         IN Len(page[p].results) + SumResults(P \ {p})

\* ---- C1 (Spec)
\* C1: a detail task whose fetch and parse succeeded never has more than one
\* row in the file, and has exactly one when the run is over; while its fetch
\* is still under way, at whatever attempt, it has no result and no row.
C1_ExactlyOneRow ==
    \A p \in Pages : \A k \in ItemsOf(p) :
        /\ Item(p, k).st = "ok" =>
              /\ RowsOf(p, k) <= 1
              /\ (mainPc = "done" => RowsOf(p, k) = 1)
        /\ Item(p, k).st = "run" =>
              /\ RowsOf(p, k) = 0
              /\ \A j \in DOMAIN page[p].results : page[p].results[j].k # k

\* the run is over and a page with two successful detail tasks has one row
\* for each of them
C1_Witness ==
    /\ mainPc = "done"
    /\ \E p \in Pages :
          /\ Len(page[p].items) = 2
          /\ \A k \in ItemsOf(p) : Item(p, k).st = "ok" /\ RowsOf(p, k) = 1

C3_TransientFailuresRetried ==
    (call.st = "raise" /\ Last(hist) \in {"s500", "s429", "reset", "timeout"})
        => Len(hist) = call.retries

\* ---- C4 (Spec)
\* C4: at most CHUNK_SIZE * MAX_DETAIL_WORKERS requests are in flight over
\* all threads, and at most MAX_DETAIL_WORKERS detail fetches per page.
C4_InFlightBound ==
    /\ SumInFlight(Pages) <= CHUNK_SIZE * MAX_DETAIL_WORKERS
    /\ \A p \in Pages :
          Cardinality(Running(page[p].items)) <= MAX_DETAIL_WORKERS

\* the bound is met, with a detail task waiting for a worker on every page
\* of a full chunk
C4_Witness ==
    /\ SumInFlight(Pages) = CHUNK_SIZE * MAX_DETAIL_WORKERS
    /\ Cardinality({p \in Pages : Queued(page[p].items) # {}}) = CHUNK_SIZE

\* ---- C5 (Spec)
\* C5: a failed detail task never makes its page task fail; once the page
\* task has returned every task of the page was handled, and at the end of
\* the run every successful sibling has its row.
C5_DetailFailureIsolated ==
    \A p \in Pages : \A k \in ItemsOf(p) :
        Item(p, k).st = "exc" =>
            /\ page[p].pc # "raised"
            /\ RowsOf(p, k) = 0
            /\ (page[p].pc = "returned" =>
                    \A j \in ItemsOf(p) : Item(p, j).seen)
            /\ (mainPc = "done" =>
                    /\ Resolved(p)
                    /\ \A j \in ItemsOf(p) :
                          Item(p, j).st = "ok" => RowsOf(p, j) = 1)

\* the run is over; on one page the first detail task failed and the second
\* succeeded and has its row
C5_Witness ==
    /\ mainPc = "done"
    /\ \E p \in Pages :
          /\ Len(page[p].items) = 2
          /\ Item(p, 1).st = "exc"
          /\ Item(p, 2).st = "ok"
          /\ RowsOf(p, 2) = 1

\* ---- C6 (Spec)
\* C6: a page whose index fetch failed has no detail tasks and no rows, and
\* at the end of the run every other page is resolved with the rows of its
\* successful detail tasks written.
C6_IndexFailureIsolated ==
    \A p \in Pages :
        page[p].pc = "raised" =>
            /\ page[p].items = <<>>
            /\ page[p].results = <<>>
            /\ RowsOfPage(p) = 0
            /\ (mainPc = "done" =>
                    \A q \in Pages \ {p} :
                        /\ Resolved(q)
                        /\ RowsOfPage(q) = Len(page[q].results)
                        /\ \A k \in ItemsOf(q) :
                              Item(q, k).st = "ok" => RowsOf(q, k) = 1)

\* the run is over; the first page of the first chunk failed, the other
\* page of that chunk and the page of the next chunk each have a row
C6_Witness ==
    /\ mainPc = "done"
    /\ page[1].pc = "raised"
    /\ \A q \in Pages \ {1} : page[q].pc = "returned" /\ RowsOfPage(q) >= 1

\* ---- C7 (FairSpec)
\* C7: the run ends, and when it has ended every page 1..PAGES is resolved.
C7_RunsToPageBound ==
    /\ <>(mainPc = "done")
    /\ [](mainPc = "done" => \A p \in Pages : Resolved(p))

\* the run is over after an index failure and a detail failure
C7_Witness ==
    /\ mainPc = "done"
    /\ \E p \in Pages : page[p].pc = "raised"
    /\ \E p \in Pages : \E k \in ItemsOf(p) : Item(p, k).st = "exc"
    /\ \A p \in Pages : Resolved(p)

\* ---- C8 (Spec)
\* C8: never two threads inside writerow at once; the only writer is main;
\* at the end of the run the file holds one row per result handed to main.
C8_WritesSerialized ==
    /\ Cardinality(writing) <= 1
    /\ writing \subseteq {MainThread}
    /\ (mainPc = "done" => RowCount = SumResults(Pages))

\* main is inside writerow while the other page of the chunk has a result
\* of its own in hand
C8_Witness ==
    /\ writing = {MainThread}
    /\ \E p \in Pages : p # wp /\ page[p].pc = "upd"

\* ---- C9 (Spec)
\* C9 as stated: no step makes total_bar.n smaller.
C9_CounterNeverDecreases == [][n' >= n]_vars

\* ---- C10 (Spec)
\* C10 as stated: when the run is over total_bar.n is the number of rows.
C10_CounterEqualsRows == mainPc = "done" => n = RowCount

\* ---- C11 (DetailSpec)
\* C11 as stated: parse_detail raises only when the fetch failed; a body
\* that was fetched always comes back as a record.
C11_ParseAnomalyNeverFails ==
    (hist # <<>> /\ Last(hist) = "s200") => ret.kind = "returned"

\* detail tasks of page p that failed / that failed and were reported
FailedOf(p) == {k \in ItemsOf(p) : Item(p, k).st = "exc"}
ReportedOf(p) == {k \in FailedOf(p) : Item(p, k).seen}

RowIdx == {j \in DOMAIN file : file[j].kind = "row"}

\* ---- C13 (Spec)
\* C13 as stated: no two rows of the file carry the same listing_url.
C13_ListingUrlUnique ==
    \A j1 \in RowIdx : \A j2 \in RowIdx :
        file[j1].url = file[j2].url => j1 = j2

HeaderIdx == {j \in DOMAIN file : file[j].kind = "header"}

\* a request of the crawl was issued: some page task has left "new"
RequestIssued == \E p \in Pages : page[p].pc # "new"

\* ---- C14 (Spec)
\* C14: the file never holds more than one header row; from the moment main
\* is past its start the header is the first line of the file; no row and no
\* request comes before it.
C14_HeaderOnceAndFirst ==
    /\ Cardinality(HeaderIdx) <= 1
    /\ (mainPc # "start" => HeaderIdx = {1})
    /\ (mainPc = "start" =>
            file = <<>> /\ ~RequestIssued /\ sessions = <<>>)
    /\ ((RowIdx # {} \/ RequestIssued) => HeaderIdx = {1})

\* the run is over with rows from both chunks behind the one header
C14_Witness ==
    /\ mainPc = "done"
    /\ HeaderIdx = {1}
    /\ RowsOfPage(1) >= 1
    /\ RowsOfPage(PAGES) >= 1

RECURSIVE Pow2(_)
Pow2(e) == IF e = 0 THEN 1 ELSE 2 * Pow2(e - 1)

\* ---- C15 (FetchSpec)
\* C15: for the backoff base b the call was started with, the sleep after
\* failed attempt k is b * 2^(k-1); there is one sleep per attempt that was
\* followed by another attempt and none after the attempt that ended the
\* call, be it a success or the last failure.
C15_ExponentialBackoff ==
    \E b \in 1..MaxBackoffArg :
        /\ call.backoff = b * Pow2(call.attempt - 1)
        /\ \A k \in DOMAIN waits : waits[k] = b * Pow2(k - 1)
        /\ Len(waits) = call.attempt - 1
        /\ Len(hist) = IF call.st = "req" THEN call.attempt - 1
                       ELSE call.attempt
        /\ \A k \in DOMAIN waits : hist[k] \in HTTPErrors

\* the defaults: three failed attempts, sleeps of 2 s and 4 s, no third sleep
C15_Witness ==
    /\ call.retries = RETRIES
    /\ call.st = "raise"
    /\ Len(hist) = RETRIES
    /\ waits = <<BACKOFF, 2 * BACKOFF>>

\* the page task of p is running: its index fetch or its detail pool
Active(p) == page[p].pc \in {"index", "pool", "upd"}

\* the page task of p is over, and every detail task of it with it
Finished(p) ==
    /\ page[p].pc \in {"returned", "raised"}
    /\ \A k \in ItemsOf(p) : Item(p, k).st \in {"ok", "exc"}

\* range(0, PAGES, CHUNK_SIZE): the values i takes in line 108
ChunkStarts == {j \in 0..(PAGES - 1) : j % CHUNK_SIZE = 0}

\* ---- C16 (Spec)
\* C16: the chunks of line 109 split 1..PAGES into consecutive groups of at
\* most CHUNK_SIZE pages; only pages of the current chunk run, so at most
\* CHUNK_SIZE page tasks at a time; and when a page of a later chunk has
\* been started, every page and detail task of the earlier chunks is over
\* and was handed to main.
C16_ChunksInSequence ==
    /\ \A p \in Pages :
          Cardinality({j \in ChunkStarts : p \in Chunk(j)}) = 1
    /\ \A j \in ChunkStarts :
          /\ Cardinality(Chunk(j)) <= CHUNK_SIZE
          /\ Chunk(j) = (j + 1)..(j + Cardinality(Chunk(j)))
    /\ \A p \in Pages : Active(p) => p \in Chunk(i)
    /\ Cardinality({p \in Pages : Active(p)}) <= CHUNK_SIZE
    /\ \A j1 \in ChunkStarts : \A j2 \in ChunkStarts :
          j1 < j2 =>
            \A p \in Chunk(j1) : \A q \in Chunk(j2) :
                page[q].pc # "new" => (Finished(p) /\ page[p].taken)

\* the page of the second chunk is fetching a detail page while both pages
\* of the first chunk are over, one of them with a row in the file
C16_Witness ==
    /\ Running(page[PAGES].items) # {}
    /\ \A p \in Chunk(0) : Finished(p)
    /\ \E p \in Chunk(0) : RowsOfPage(p) >= 1

\* ---- C17 (Spec)
\* C17 as stated: as soon as the page thread holds the record of a
\* successful detail task, the record's row is in the file.
C17_RowWrittenImmediately ==
    \A p \in Pages : \A k \in ItemsOf(p) :
        (Item(p, k).st = "ok" /\ Item(p, k).seen) => RowsOf(p, k) = 1

\* C17: a row of a page is in the file only after the page task has
\* returned and main has taken its result list, hence after every detail
\* task of that page was resolved and handed over; the rows come from that
\* list; and a step never changes or removes what is in the file, it only
\* appends.
C17_RowsAfterPageReturn ==
    /\ [](\A p \in Pages :
            /\ RowsOfPage(p) > 0 =>
                  /\ page[p].pc = "returned" /\ page[p].taken
                  /\ \A k \in ItemsOf(p) :
                        Item(p, k).st \in {"ok", "exc"} /\ Item(p, k).seen
            /\ \A j \in DOMAIN file :
                  (file[j].kind = "row" /\ file[j].pg = p) =>
                     \E r \in DOMAIN page[p].results :
                        /\ page[p].results[r].k = file[j].k
                        /\ page[p].results[r].url = file[j].url)
    /\ [][/\ Len(file') >= Len(file)
          /\ SubSeq(file', 1, Len(file)) = file]_vars

\* main is writing the rows of a returned page with two successful detail
\* tasks: the first row is in the file, the second is not yet
C17_Witness ==
    \E p \in Pages :
        /\ mainPc = "rows" /\ wp = p
        /\ Len(page[p].results) = 2
        /\ RowsOf(p, page[p].results[1].k) = 1
        /\ RowsOf(p, page[p].results[2].k) = 0

\* the scheduler-level state of a page task and of a detail task
PagePhase(pg) ==
    IF pg.pc = "new" THEN "Pending"
    ELSE IF pg.pc \in {"index", "pool", "upd"} THEN "InFlight"
    ELSE IF pg.pc = "returned" THEN "Completed"
    ELSE "FailedTerminal"

ItemPhase(it) ==
    IF it.st = "queued" THEN "Pending"
    ELSE IF it.st = "run" THEN "InFlight"
    ELSE IF it.st = "ok" THEN "Completed"
    ELSE "FailedTerminal"

PhaseSteps ==
    {<<ph, ph>> : ph \in {"Pending", "InFlight", "Completed", "FailedTerminal"}}
        \cup {<<"Pending", "InFlight">>, <<"InFlight", "Completed">>,
              <<"InFlight", "FailedTerminal">>}

\* the attempt number of the fetch a task is in, 0 when it is in none
AttemptOf(c) == IF c = NoCall THEN 0 ELSE c.attempt

\* ---- C18 (Spec)
\* C18: in every step each page task and each detail task keeps its phase
\* or moves Pending -> InFlight, InFlight -> Completed or InFlight ->
\* FailedTerminal; a task that stays InFlight never starts its fetch anew
\* (the attempt number does not go down: it is not submitted again); the
\* detail tasks of a page are created once, Pending or in their first
\* attempt, and none disappears.
C18_ItemLifecycle ==
    [][\A p \in Pages :
          /\ <<PagePhase(page[p]), PagePhase(page'[p])>> \in PhaseSteps
          /\ (page[p].pc = "index" /\ page'[p].pc = "index") =>
                 AttemptOf(page'[p].c) >= AttemptOf(page[p].c)
          /\ (page[p].pc = "new" /\ page'[p].pc # "new") =>
                 (page'[p].pc = "index" /\ AttemptOf(page'[p].c) = 1)
          /\ page[p].pc \in {"pool", "upd", "returned", "raised"} =>
                 DOMAIN page'[p].items = DOMAIN page[p].items
          /\ \A k \in DOMAIN page'[p].items :
                IF k \in DOMAIN page[p].items
                THEN /\ <<ItemPhase(page[p].items[k]),
                           ItemPhase(page'[p].items[k])>> \in PhaseSteps
                     /\ (page[p].items[k].st = "run"
                            /\ page'[p].items[k].st = "run") =>
                          AttemptOf(page'[p].items[k].c)
                              >= AttemptOf(page[p].items[k].c)
                     /\ (page[p].items[k].st = "queued"
                            /\ page'[p].items[k].st = "run") =>
                          AttemptOf(page'[p].items[k].c) = 1
                ELSE \/ page'[p].items[k].st = "queued"
                     \/ /\ page'[p].items[k].st = "run"
                        /\ AttemptOf(page'[p].items[k].c) = 1]_vars

\* a page task failed, another one completed with one detail task completed
\* and one failed, and a third page has a detail task waiting for a worker
\* behind one that is in its second attempt
C18_Witness ==
    \E p1 \in Pages, p2 \in Pages, p3 \in Pages :
        /\ page[p1].pc = "raised"
        /\ page[p2].pc = "returned"
        /\ \E k \in ItemsOf(p2) : Item(p2, k).st = "ok"
        /\ \E k \in ItemsOf(p2) : Item(p2, k).st = "exc"
        /\ \E k \in ItemsOf(p3) :
              Item(p3, k).st = "run" /\ AttemptOf(Item(p3, k).c) = 2
        /\ \E k \in ItemsOf(p3) : Item(p3, k).st = "queued"

\* ---- C19 (Spec)
\* C19: a page task that was submitted has a session that exists; while a
\* request of the page or of one of its detail tasks is under way that
\* session is open; a closed session belongs to pages whose page task and
\* detail tasks are all over; two submitted pages have the same session
\* exactly when they are in the same chunk; at most one session is open.
C19_SessionPerChunk ==
    /\ \A p \in Pages :
          page[p].pc # "new" =>
             /\ page[p].sess \in DOMAIN sessions
             /\ InFlight(p) > 0 => sessions[page[p].sess] = "open"
             /\ sessions[page[p].sess] = "closed" => Finished(p)
    /\ \A j1 \in ChunkStarts : \A j2 \in ChunkStarts :
          \A p \in Chunk(j1) : \A q \in Chunk(j2) :
              (page[p].pc # "new" /\ page[q].pc # "new") =>
                 (page[p].sess = page[q].sess <=> j1 = j2)
    /\ Cardinality({s \in DOMAIN sessions : sessions[s] = "open"}) <= 1

\* the session of the first chunk is closed, and on the open session of the
\* second chunk a detail request is under way
C19_Witness ==
    /\ sessions = <<"closed", "open">>
    /\ page[PAGES].sess = 2
    /\ Running(page[PAGES].items) # {}
    /\ \A p \in Chunk(0) : page[p].sess = 1

\* main has taken the result list of page p and is through with its rows
Written(p) == page[p].taken /\ ~(mainPc = "rows" /\ wp = p)

\* ---- C20 (Spec)
\* C20: when the page task of a page with n links has returned, there is
\* one detail task per link, each resolved and handed over once: the
\* successful ones are in the result list once each, the failed ones were
\* reported once each, and results + reports = n; once main has written
\* the page, rows of the page + reports of the page = n, with one row for
\* each successful task and none for a failed one.
C20_PageAccounting ==
    \A p \in Pages :
        page[p].pc = "returned" =>
           /\ Len(page[p].items) = Len(page[p].hrefs)
           /\ \A k \in ItemsOf(p) :
                 Item(p, k).st \in {"ok", "exc"} /\ Item(p, k).seen
           /\ \A k \in ItemsOf(p) :
                 Cardinality({r \in DOMAIN page[p].results :
                                 page[p].results[r].k = k})
                    = IF Item(p, k).st = "ok" THEN 1 ELSE 0
           /\ page[p].derr = Cardinality(FailedOf(p))
           /\ Len(page[p].results) + page[p].derr = Len(page[p].hrefs)
           /\ Written(p) =>
                 /\ RowsOfPage(p) + page[p].derr = Len(page[p].hrefs)
                 /\ \A k \in ItemsOf(p) :
                       RowsOf(p, k) = IF Item(p, k).st = "ok" THEN 1 ELSE 0

\* a page with two links is written: one row, one reported failure
C20_Witness ==
    \E p \in Pages :
        /\ page[p].pc = "returned" /\ Written(p)
        /\ Len(page[p].hrefs) = 2
        /\ RowsOfPage(p) = 1
        /\ page[p].derr = 1

====
